---- MODULE Spec2Model ----
(***************************************************************************)
(* A model of the disk-usage scanner: the shared Tree of nodes             *)
(* (src-tauri/src/tree), and the Scanner worker pool that fills it         *)
(* (src-tauri/src/service.rs).                                             *)
(*                                                                         *)
(* Nodes live in an arena: a NodeRef (Arc<RwLock<Node>>) is a node id, and *)
(* the fields of Node are functions over the allocated ids.  A path is the *)
(* sequence of its components; the component "/" is Component::RootDir.    *)
(***************************************************************************)
EXTENDS Integers, Sequences, FiniteSets, TLC

VARIABLES
    value,      \* Node.value: the FileNode of each node
    count,      \* Node.count: number of nodes below each node
    children,   \* Node.children: ordered child ids of each node
    parent,     \* Node.parent: parent id of each node, or None
    root,       \* Tree.root
    ret,        \* what the last call on the Tree returned to its caller
    caller,     \* the thread that calls the Tree: "running", "blocked" or "panicked"
    disk,       \* the directory tree being scanned: what the OS answers for each path
    concurrency, \* Scanner.concurrency
    queue,      \* Scanner.queue: the ScanQueueItems waiting to be scanned
    workers,    \* Scanner.workers: the spawned worker tasks
    progress,   \* Scanner.progress: the ScanProgress behind its mutex
    chan,       \* the progress channel: the snapshots sent and not yet received
    task,       \* each worker task: where it is in its loop, and its locals
    first,      \* the outcome of the first of two scans of the same directory tree
    scans,      \* how many times start() has been called
    last,       \* the last call made on the Scanner: "new", "start", "stop" or "clear"
    rx,         \* the Receiver start() returned last: "none", "open", "dropped" or "closed"
    requested,  \* the path the caller hands to start_scan
    kept,       \* the tree a scan left whose receiver was kept and drained
    errors      \* the "Error sending stats update" lines notify_stats has logged

treeVars == <<value, count, children, parent, root>>
callVars == <<ret, caller>>
scanVars == <<queue, workers, progress, chan, task>>
lifeVars == <<scans, last, rx>>
vars == <<value, count, children, parent, root, ret, caller,
          disk, concurrency, queue, workers, progress, chan, task, first,
          scans, last, rx, requested, kept, errors>>

\* Option::None of a NodeRef: no node id.
None == -1
RootDir == "/"

\* Bounds of the model.
MaxNodes == 4
MaxKeyLen == 2
MaxConcurrency == 2
\* The iterations a worker makes before it leaves its loop: _max_count, which
\* is 10000 in the source (service.rs), scaled down with the directory trees
\* of the model so that a tree of more entries than the cap fits.
MaxCount == 3
\* The calls of start() a Scanner of the model takes.
MaxScans == 2

\* mpsc::channel(1000)
ChannelCapacity == 1000

Names == {"a", "b"}

RECURSIVE NameSeqs(_)
NameSeqs(n) ==
    IF n = 0 THEN {<<>>}
    ELSE LET shorter == NameSeqs(n - 1)
         IN shorter \cup {Append(s, c) : s \in {t \in shorter : Len(t) = n - 1}, c \in Names}

\* The keys handed to the Tree: absolute paths, a relative path, the empty path.
Keys == {<<RootDir>> \o s : s \in NameSeqs(MaxKeyLen)} \cup {<<c>> : c \in Names} \cup {<<>>}

\* The entries handed to Tree.insert: a local name, a size, a kind.
Values == {[path |-> <<c>>, size |-> k[1], is_directory |-> k[2]] :
               c \in Names, k \in {<<0, TRUE>>, <<1, FALSE>>}}

Nodes == DOMAIN value

Range(seq) == {seq[i] : i \in DOMAIN seq}

\* ------------------------------------------------------------------ Node

\* FileNode::new(path, is_dir): size 0.
FileNodeNew(path, is_dir) == [path |-> path, size |-> 0, is_directory |-> is_dir]

\* Node.total_count(), for the counts cnt: the node and everything below it.
total_count(cnt, n) == cnt[n] + 1

\* RootIter { node: start }: the parents it yields, nearest first.
RECURSIVE RootIter(_)
RootIter(start) ==
    IF start = None THEN <<>>
    ELSE LET next == parent[start]
         IN IF next = None THEN <<>> ELSE <<next>> \o RootIter(next)

\* PathBuf::push: an absolute path pushed on a base replaces it.
Push(base, path) == IF path # <<>> /\ Head(path) = RootDir THEN path ELSE base \o path

RECURSIVE PushParents(_, _)
PushParents(iter, path) ==
    IF iter = <<>> THEN path
    ELSE PushParents(Tail(iter), Push(value[Head(iter)].path, path))

\* Node.get_path(): the node's own path pushed on the path of each node that
\* RootIter { node: self.parent } yields in turn, the nodes above the parent.
get_path(n) == PushParents(RootIter(parent[n]), value[n].path)

\* The nodes of the subtree of n, n included: what its Arc keeps alive.
RECURSIVE Subtree(_)
Subtree(n) == {n} \cup UNION {Subtree(c) : c \in Range(children[n])}

\* ------------------------------------------------------------------ Tree

\* child.read().map(|node| node.get_value().path.as_os_str() == path.as_os_str()):
\* an Ok holding the comparison (no lock of the model is poisoned).
ReadMapEq(child, comp) == [ok |-> TRUE, val |-> (value[child].path = <<comp>>)]

\* The test get_node makes of a child: .is_ok() of that Result.
is_ok(child, comp) == ReadMapEq(child, comp).ok

\* The first child of node that passes the test, or None.
RECURSIVE FindTarget(_, _, _)
FindTarget(kids, i, comp) ==
    IF i > Len(kids) THEN None
    ELSE IF is_ok(kids[i], comp) THEN kids[i]
    ELSE FindTarget(kids, i + 1, comp)

\* The loop of get_node over the components after the root.
RECURSIVE Walk(_, _)
Walk(current, paths) ==
    IF paths = <<>> THEN current
    ELSE IF current = None THEN None
    ELSE Walk(FindTarget(children[current], 1, Head(paths)), Tail(paths))

\* Tree.get_node(key), on the Tree whose root is tree.
get_node_in(tree, key) ==
    IF key = <<>> THEN None
    ELSE IF Head(key) # RootDir THEN None
    ELSE Walk(tree, Tail(key))

\* Tree.get_node(key), on the Tree the Scanner holds.
get_node(key) == get_node_in(root, key)

\* Tree.contains(key)
contains(key) == get_node(key) # None

\* Tree.size()
size == IF root = None THEN 0 ELSE count[root] + 1

\* add_child as it would be without the "+ 1" for the inserted node itself.
add_child_without_self(cnt, p, childCount) == [cnt EXCEPT ![p] = @ + childCount]

\* Node.add_child on node p, for a child that carries childCount nodes below it.
add_child(cnt, p, childCount) == [cnt EXCEPT ![p] = @ + childCount + 1]

\* The loop of insert_node over RootIter: each yielded node's parent gains tc.
RECURSIVE CountWalk(_, _, _)
CountWalk(cnt, iter, tc) ==
    IF iter = <<>> THEN cnt
    ELSE LET up == parent[Head(iter)]
         IN CountWalk(IF up = None THEN cnt ELSE [cnt EXCEPT ![up] = @ + tc],
                      Tail(iter), tc)

\* The id of the next node allocated: the first one not in use.
NewId == CHOOSE i \in 0..Cardinality(Nodes) : i \notin Nodes /\ \A j \in 0..(i - 1) : j \in Nodes

\* insert_node as it would be without node.parent = Some(parent_node).
insert_node_without_parent(tree, key, v) ==
    LET p == get_node_in(tree, key)
        n == NewId
    IN /\ p # None
       /\ value' = value @@ (n :> v)
       /\ children' = [children EXCEPT ![p] = Append(@, n)] @@ (n :> <<>>)
       /\ parent' = parent @@ (n :> None)
       /\ count' = add_child(count @@ (n :> 0), p, 0)
       /\ UNCHANGED root

\* Tree.insert(parent, value) = insert_node(parent, Node::new(value)),
\* changing only the tree: add_child on the parent get_node finds, then the
\* loop over RootIter { node: new_node }, which yields that parent first.
insert_node_in(tree, key, v) ==
    LET p == get_node_in(tree, key)
        n == NewId
    IN /\ p # None
       /\ value' = value @@ (n :> v)
       /\ children' = [children EXCEPT ![p] = Append(@, n)] @@ (n :> <<>>)
       /\ parent' = parent @@ (n :> p)
       /\ count' = LET added == add_child(count @@ (n :> 0), p, 0)
                   IN CountWalk(added, <<p>> \o RootIter(p), total_count(added, n))
       /\ UNCHANGED root

\* Tree.insert on the Tree the Scanner holds.
insert_node(key, v) == insert_node_in(root, key, v)

\* ------------------------------------------------------------------ calls

Insert(key, v) ==
    /\ caller = "running"
    /\ IF get_node(key) = None
       THEN /\ ret' = [op |-> "insert", key |-> key, value |-> v,
                       result |-> "parent not found", node |-> None]
            /\ UNCHANGED treeVars
       ELSE /\ NewId < MaxNodes
            /\ insert_node(key, v)
            /\ ret' = [op |-> "insert", key |-> key, value |-> v,
                       result |-> "Ok", node |-> NewId]
    /\ UNCHANGED caller
    /\ UNCHANGED <<disk, concurrency, scanVars, first, lifeVars, requested, kept, errors>>

\* What retain keeps of kids before it reads `node`, whose write lock the
\* caller holds: the children in front of it whose path differs.
RECURSIVE RetainedBefore(_, _)
RetainedBefore(kids, node) ==
    IF kids = <<>> \/ Head(kids) = node THEN <<>>
    ELSE (IF value[Head(kids)].path # value[node].path THEN <<Head(kids)>> ELSE <<>>)
         \o RetainedBefore(Tail(kids), node)

\* The children from `node` on: those retain has not read yet.
RECURSIVE FromNode(_, _)
FromNode(kids, node) ==
    IF kids = <<>> \/ Head(kids) = node THEN kids ELSE FromNode(Tail(kids), node)

\* Tree.remove(key).  A key get_node does not find is an Err.  The root has
\* no parent: nothing is detached and the root is returned.  For any other
\* node the call takes node.write(), then parent.write(), and retain reads
\* every child of the parent in turn; `node` is one of them, and
\* child.read() on the RwLock this thread holds for writing either blocks
\* for ever or panics (std::sync::RwLock leaves it to the platform).  A
\* panic unwinds through retain, which keeps what it has not dropped yet.
Remove(key) ==
    /\ caller = "running"
    /\ LET node == get_node(key)
       IN IF node = None
          THEN /\ ret' = [op |-> "remove", key |-> key, value |-> FileNodeNew(key, FALSE),
                          result |-> "not found", node |-> None]
               /\ UNCHANGED <<treeVars, caller>>
          ELSE IF parent[node] = None
          THEN /\ ret' = [op |-> "remove", key |-> key, value |-> value[node],
                          result |-> "Ok", node |-> node]
               /\ UNCHANGED <<treeVars, caller>>
          ELSE /\ ret' = [op |-> "remove", key |-> key, value |-> value[node],
                          result |-> "no return", node |-> node]
               /\ \/ /\ caller' = "blocked"
                     /\ UNCHANGED treeVars
                  \/ /\ caller' = "panicked"
                     /\ children' = [children EXCEPT ![parent[node]] =
                                        RetainedBefore(@, node) \o FromNode(@, node)]
                     /\ UNCHANGED <<value, count, parent, root>>
    /\ UNCHANGED <<disk, concurrency, scanVars, first, lifeVars, requested, kept, errors>>

\* self.children.iter().position(|item| item.read().unwrap().value.path == *key):
\* the index of the first child of n whose path is key, 0 for None.
position(n, key) ==
    LET hits == {i \in 1..Len(children[n]) : value[children[n][i]].path = key}
    IN IF hits = {} THEN 0 ELSE CHOOSE i \in hits : \A j \in hits : i <= j

\* The loop of remove_child over its VecDeque: the node at the front goes to
\* elems and its children, drained from it, to the back.
RECURSIVE drain(_)
drain(pending) ==
    IF pending = <<>> THEN <<>>
    ELSE <<Head(pending)>> \o drain(Tail(pending) \o children[Head(pending)])

\* What remove_child(key) on node n returns: elems.
remove_child(n, key) ==
    IF position(n, key) = 0 THEN <<>> ELSE drain(<<children[n][position(n, key)]>>)

\* Node.remove_child(key) on the node n of the Tree, by a caller that holds
\* its NodeRef: the child at position leaves n.children, n.count goes down by
\* that child's count + 1, every node on the way has its children drained,
\* and the nodes are returned; nothing changes when no child has that path.
RemoveChild(n, key) ==
    /\ caller = "running"
    /\ root # None
    /\ n \in Subtree(root)
    /\ LET pos == position(n, key)
           elems == remove_child(n, key)
       IN /\ ret' = [op |-> "remove_child", key |-> key, value |-> value[n],
                     result |-> "Ok", node |-> n, elems |-> elems]
          /\ IF pos = 0
             THEN UNCHANGED <<children, count>>
             ELSE /\ children' = [m \in Nodes |->
                                     IF m = n THEN SubSeq(children[n], 1, pos - 1)
                                                   \o SubSeq(children[n], pos + 1, Len(children[n]))
                                     ELSE IF m \in Range(elems) THEN <<>>
                                     ELSE children[m]]
                  /\ count' = [count EXCEPT ![n] = @ - (count[children[n][pos]] + 1)]
    /\ UNCHANGED <<value, parent, root, caller>>
    /\ UNCHANGED <<disk, concurrency, scanVars, first, lifeVars, requested, kept, errors>>

\* A lookup by a caller of the Tree: get_node(key), or contains(key).
GetNode(key) ==
    /\ caller = "running"
    /\ ret' = [op |-> "get_node", key |-> key, value |-> FileNodeNew(key, FALSE),
               result |-> "Ok", node |-> get_node(key)]
    /\ UNCHANGED <<treeVars, caller>>
    /\ UNCHANGED <<disk, concurrency, scanVars, first, lifeVars, requested, kept, errors>>

\* ------------------------------------------------------------------ the directory trees

\* No path: Option<PathBuf>::None, and the Err of a path that does not resolve.
NoPath == <<>>

\* What the filesystem holds at a path: a file or a directory with the length
\* its metadata reports and the names read_dir lists, or a symbolic link to
\* `link`.  `denied`: read_dir fails on the directory.  `bad`: the number of
\* the next_entry() call that returns Err (0: none does).
File(len) == [is_dir |-> FALSE, len |-> len, entries |-> <<>>, link |-> NoPath,
              denied |-> FALSE, bad |-> 0]
Dir(len, names) == [is_dir |-> TRUE, len |-> len, entries |-> names, link |-> NoPath,
                    denied |-> FALSE, bad |-> 0]
Link(target) == [File(0) EXCEPT !.link = target]

\* Two files in the root.
DiskFlat ==
    (<<"/">> :> Dir(0, <<"a", "b">>))
    @@ (<<"/", "a">> :> File(1)) @@ (<<"/", "b">> :> File(2))

\* A chain of three directories over one file; the OS reports length 0 for them.
DiskDeep ==
    (<<"/">> :> Dir(0, <<"d">>))
    @@ (<<"/", "d">> :> Dir(0, <<"e">>))
    @@ (<<"/", "d", "e">> :> Dir(0, <<"f">>))
    @@ (<<"/", "d", "e", "f">> :> Dir(0, <<"g">>))
    @@ (<<"/", "d", "e", "f", "g">> :> File(2))

\* A file and a directory of one file; the OS reports length 4 for the directory.
DiskMixed ==
    (<<"/">> :> Dir(0, <<"a", "d">>))
    @@ (<<"/", "a">> :> File(1))
    @@ (<<"/", "d">> :> Dir(4, <<"x">>))
    @@ (<<"/", "d", "x">> :> File(2))

\* A directory of one file.
DiskNested ==
    (<<"/">> :> Dir(0, <<"d">>))
    @@ (<<"/", "d">> :> Dir(4, <<"x">>))
    @@ (<<"/", "d", "x">> :> File(2))

Disks == {DiskFlat, DiskDeep, DiskMixed}

\* read_dir lists a and b; a is gone when fs::metadata asks for it.
DiskGone ==
    (<<"/">> :> Dir(0, <<"a", "b">>))
    @@ (<<"/", "b">> :> File(2))

\* A directory that cannot be listed, before a file.
DiskDenied ==
    (<<"/">> :> Dir(0, <<"d", "b">>))
    @@ (<<"/", "d">> :> [Dir(0, <<"x">>) EXCEPT !.denied = TRUE])
    @@ (<<"/", "d", "x">> :> File(1))
    @@ (<<"/", "b">> :> File(2))

\* A listing of three entries whose second next_entry() call returns Err.
DiskBadEntry ==
    (<<"/">> :> Dir(0, <<"d">>))
    @@ (<<"/", "d">> :> [Dir(0, <<"x", "y", "z">>) EXCEPT !.bad = 2])
    @@ (<<"/", "d", "x">> :> File(1))
    @@ (<<"/", "d", "y">> :> File(1))
    @@ (<<"/", "d", "z">> :> File(2))

\* A directory d of one file, and a symbolic link l to d next to it.
DiskLink ==
    (<<"/">> :> Dir(0, <<"d", "l">>))
    @@ (<<"/", "d">> :> Dir(0, <<"x">>))
    @@ (<<"/", "d", "x">> :> File(1))
    @@ (<<"/", "l">> :> Link(<<"/", "d">>))

\* A directory d that holds a symbolic link l to d itself.
DiskCycle ==
    (<<"/">> :> Dir(0, <<"d">>))
    @@ (<<"/", "d">> :> Dir(0, <<"l">>))
    @@ (<<"/", "d", "l">> :> Link(<<"/", "d">>))

LinkDisks == {DiskLink, DiskCycle}

\* A root that cannot be listed.
DiskRootDenied ==
    (<<"/">> :> [Dir(0, <<"a">>) EXCEPT !.denied = TRUE])
    @@ (<<"/", "a">> :> File(1))

FaultyDisks == {DiskGone, DiskDenied, DiskBadEntry, DiskRootDenied}

\* ------------------------------------------------------------------ Scanner

\* No path: the None of an Option<PathBuf>.
NoItem == [path |-> NoPath, parent |-> NoPath]
NoFile == FileNodeNew(NoPath, FALSE)

\* The tasks the Scanners of the model spawn: `concurrency` at each start().
WorkerIds == 1..(MaxConcurrency * MaxScans)

\* A worker task as tokio::spawn creates it, before start() hands it its
\* clones: tree is the Tree behind its Arc, scan the start() whose Sender it
\* holds.  aborted: abort() was called on its JoinHandle; resumed: the turn of
\* its loop (pc, count) that was being polled at that moment.  wlocks: the
\* nodes whose RwLock it holds for writing.
NewTask == [pc |-> "loop", count |-> 0, item |-> NoItem, node |-> NoFile,
            new_node |-> None, cursor |-> None, root |-> NoFile,
            tree |-> None, scan |-> 0, aborted |-> FALSE, resumed |-> <<"", 0>>,
            wlocks |-> {}]

\* A task whose future has been dropped by the runtime.
Cancelled == [NewTask EXCEPT !.pc = "cancelled", !.aborted = TRUE]

\* The tasks that have not ended: they can still be polled.
Running == {w \in DOMAIN task : task[w].pc \notin {"done", "cancelled"}}

\* The ids of the n tasks start() spawns: the first n that no running task has.
SpawnIds(n) == {w \in WorkerIds : Cardinality({v \in WorkerIds \ Running : v <= w}) \in 1..n
                                  /\ w \notin Running}

\* The Sender clones as they would be if a task gave its clone up when the
\* scan is marked not scanning.
SendersWhileScanning == {w \in Running : task[w].scan = scans /\ progress.is_scanning}

\* The Senders of the channel start() made last: the clone each of its tasks
\* owns until the task ends (start()'s own tx is dropped when it returns).
Senders == {w \in Running : task[w].scan = scans}

\* The file or directory the OS reaches at path, for fs::metadata and
\* fs::read_dir, which follow symbolic links, in the path and at its end;
\* NoPath when there is nothing.  (The links of the model point to
\* directories; the scans of the model stay far below the depth at which
\* the OS gives up on a chain of links.)
RECURSIVE Lookup(_)
Lookup(path) ==
    IF path = <<RootDir>> THEN path
    ELSE IF path = <<>> THEN NoPath
    ELSE LET up == Lookup(SubSeq(path, 1, Len(path) - 1))
             at == up \o <<path[Len(path)]>>
         IN IF up = NoPath \/ at \notin DOMAIN disk THEN NoPath
            ELSE IF disk[at].link # NoPath THEN Lookup(disk[at].link)
            ELSE at

\* There is a symbolic link at path (what fs::symlink_metadata would tell).
is_symlink(path) ==
    /\ Len(path) > 1
    /\ LET at == Lookup(SubSeq(path, 1, Len(path) - 1)) \o <<path[Len(path)]>>
       IN at \in DOMAIN disk /\ disk[at].link # NoPath

\* fs::metadata(path) is Ok.
MetadataOk(path) == Lookup(path) # NoPath

\* Scanner::obtain_file_node(path, metadata), for the metadata fs::metadata
\* returns for path.
obtain_file_node(path) ==
    [path |-> path, size |-> disk[Lookup(path)].len,
     is_directory |-> disk[Lookup(path)].is_dir]

\* What process_directory collects from read_dir(item): one ScanQueueItem for
\* each entry next_entry() returns, up to the first call that does not
\* return Ok(Some(entry)).
DirChildren(item) ==
    LET dir == disk[Lookup(item)]
        n == IF dir.bad = 0 THEN Len(dir.entries) ELSE dir.bad - 1
    IN [i \in 1..n |-> [path |-> item \o <<dir.entries[i]>>, parent |-> item]]

\* fs::read_dir(item) succeeds on a directory there is and that can be read.
ReadDirOk(item) ==
    /\ MetadataOk(item)
    /\ disk[Lookup(item)].is_dir
    /\ ~disk[Lookup(item)].denied

\* Scanner::process_directory(item, queue): the queue it leaves.
process_directory(item) ==
    IF ReadDirOk(item) THEN queue \o DirChildren(item) ELSE queue

\* Scanner::should_exit_scan(queue)
should_exit_scan == Len(queue) = 0

\* The read lock update_parent_size holds on the node it was given, for the
\* whole of its walk: a node that another task than w holds for reading.
ReadHeldByOther(w, n) ==
    \E v \in Running \ {w} :
        task[v].pc = "update_parent_size" /\ task[v].new_node = n

\* abort() only marks a task: a task that is being polled runs on to the next
\* await that suspends it, and is dropped there.  Waiting for the filesystem
\* (fs::metadata, fs::read_dir) and sleeping always suspend; a turn that was
\* being polled when abort() was called is past that await already.
PastIo(w) ==
    \/ ~task[w].aborted
    \/ task[w].resumed = <<task[w].pc, task[w].count>>

\* What start() hands back: the Receiver, whatever process_directory(root)
\* returned (let _ = ..); its signature has no Err.
start_result ==
    [op |-> "start", key |-> value[root].path, value |-> value[root],
     result |-> "Ok", node |-> root]

\* Scanner::start(): it makes a channel, drops the JoinHandles it holds, takes
\* the tree mutex, sets the progress from the root, puts the root's entries on
\* the queue and spawns the workers with their clones.
start ==
    /\ root # None
    /\ scans < MaxScans
    /\ progress' = [progress EXCEPT !.current_path = value[root].path,
                                    !.scaned_size = value[root].size,
                                    !.is_scanning = TRUE]
    /\ queue' = process_directory(value[root].path)
    /\ workers' = SpawnIds(concurrency)
    /\ task' = [w \in Running \cup SpawnIds(concurrency) |->
                   IF w \in Running THEN task[w]
                   ELSE [NewTask EXCEPT !.tree = root, !.scan = scans + 1]]
    /\ chan' = <<>>
    /\ rx' = "open"
    /\ scans' = scans + 1
    /\ last' = "start"
    /\ ret' = start_result
    /\ UNCHANGED <<treeVars, caller, disk, concurrency, first, requested, kept, errors>>

\* start() on a Scanner that holds no JoinHandle: a new one, or one whose
\* last call was stop_scanning() or clear().
Start ==
    /\ workers = {}
    /\ start

\* start_scan_without_clear: the start() call of a start_scan command that
\* does not call clear() first.
start_scan_without_clear ==
    /\ start

\* The start() call of the start_scan command (lib.rs): the command holds the
\* Mutex<Scanner> and calls scanner.clear() and then scanner.start(), so
\* start() is only ever called with clear() as the call before it.
start_scan ==
    /\ last = "clear"
    /\ start

\* The head of the worker loop: the cap on its iterations, then queue.pop_front().
Pop(w) ==
    /\ w \in Running
    /\ task[w].pc = "loop"
    /\ IF task[w].count >= MaxCount
       THEN /\ task' = [task EXCEPT ![w].pc = "finish"]
            /\ UNCHANGED queue
       ELSE IF queue = <<>>
       THEN /\ task' = [task EXCEPT ![w].count = @ + 1, ![w].item = NoItem,
                                    ![w].pc = "should_exit_scan"]
            /\ UNCHANGED queue
       ELSE /\ task' = [task EXCEPT ![w].count = @ + 1, ![w].item = Head(queue),
                                    ![w].pc = "current_path"]
            /\ queue' = Tail(queue)
    /\ UNCHANGED <<treeVars, callVars, disk, concurrency, workers, progress, chan, first,
                   lifeVars, requested, kept, errors>>

\* Some(item): prog.current_path = Some(item.path).
SetCurrentPath(w) ==
    /\ w \in Running
    /\ task[w].pc = "current_path"
    /\ progress' = [progress EXCEPT !.current_path = task[w].item.path]
    /\ task' = [task EXCEPT ![w].pc = "process_scan_item"]
    /\ UNCHANGED <<treeVars, callVars, disk, concurrency, queue, workers, chan, first,
                   lifeVars, requested, kept, errors>>

\* Where process_scan_item goes once the insert and the notification are over.
AfterInsert(node) == IF node.is_directory THEN "process_directory" ELSE "loop"

\* process_scan_item up to the insert: fs::metadata(path), then under the tree
\* mutex files.insert(parent, node); on Ok update_parent_size takes the new
\* node's read lock and starts from its parent.  insert_node waits for the
\* write lock of the parent and of each node above it.
ProcessScanItem(w) ==
    /\ w \in Running
    /\ task[w].pc = "process_scan_item"
    /\ PastIo(w)
    /\ LET path == task[w].item.path
           key == task[w].item.parent
       IN IF ~MetadataOk(path)
          THEN /\ task' = [task EXCEPT ![w].pc = "loop"]
               /\ UNCHANGED treeVars
          ELSE LET node == obtain_file_node(path)
                   p == get_node_in(task[w].tree, key)
               IN IF p = None
                  THEN /\ task' = [task EXCEPT ![w].node = node, ![w].new_node = None,
                                               ![w].pc = AfterInsert(node)]
                       /\ UNCHANGED treeVars
                  ELSE /\ \A n \in {p} \cup Range(RootIter(p)) : ~ReadHeldByOther(w, n)
                       /\ insert_node_in(task[w].tree, key, node)
                       /\ task' = [task EXCEPT ![w].node = node, ![w].new_node = NewId,
                                               ![w].cursor = p,
                                               ![w].pc = "update_parent_size"]
    /\ UNCHANGED <<callVars, disk, concurrency, queue, workers, progress, chan, first,
                   lifeVars, requested, kept, errors>>

\* update_parent_size as it would be if it stored the new node's size in the
\* nodes above it.
UpdateParentSizeStore(w) ==
    /\ w \in Running
    /\ task[w].pc = "update_parent_size"
    /\ LET up == task[w].cursor
           new_size == value[task[w].new_node].size
       IN /\ ~ReadHeldByOther(w, up)
          /\ value' = [value EXCEPT ![up].size = new_size]
          /\ task' = [task EXCEPT ![w].cursor = parent[up],
                                  ![w].pc = IF parent[up] = None THEN "get_file_node"
                                            ELSE "update_parent_size"]
    /\ UNCHANGED <<count, children, parent, root, callVars, disk, concurrency,
                   queue, workers, progress, chan, first, lifeVars, requested, kept, errors>>

\* One turn of the loop of update_parent_size: under the write lock of the
\* node at the cursor, add the new node's size to it and move to its parent;
\* past the root, the new node's read lock is released.
UpdateParentSize(w) ==
    /\ w \in Running
    /\ task[w].pc = "update_parent_size"
    /\ LET up == task[w].cursor
           new_size == value[task[w].new_node].size
       IN /\ ~ReadHeldByOther(w, up)
          /\ value' = [value EXCEPT ![up].size = @ + new_size]
          /\ task' = [task EXCEPT ![w].cursor = parent[up],
                                  ![w].pc = IF parent[up] = None THEN "get_file_node"
                                            ELSE "update_parent_size"]
    /\ UNCHANGED <<count, children, parent, root, callVars, disk, concurrency,
                   queue, workers, progress, chan, first, lifeVars, requested, kept, errors>>

\* Scanner::_get_file_node(tree, "/"): under the tree mutex, a copy of the
\* FileNode of the node get_node finds.
GetFileNode(w) ==
    /\ w \in Running
    /\ task[w].pc = "get_file_node"
    /\ LET found == get_node_in(task[w].tree, <<RootDir>>)
       IN task' = [task EXCEPT ![w].root = IF found = None THEN NoFile ELSE value[found],
                               ![w].pc = IF found = None THEN AfterInsert(task[w].node)
                                         ELSE "notify_stats"]
    /\ UNCHANGED <<treeVars, callVars, disk, concurrency, queue, workers, progress,
                   chan, first, lifeVars, requested, kept, errors>>

\* tx.send(new_progress) by task w on the channel chan: Ok puts the snapshot
\* on the channel; with the Receiver dropped it is an Err, which notify_stats
\* logs and drops.  The Sender of a task of an earlier start() is that of an
\* earlier channel.
send(w, new_progress) ==
    IF w \in Senders /\ rx = "open" THEN Append(chan, new_progress) ELSE chan

\* notify_stats followed by a stop of the worker when the send has failed.
AfterNotifyOrStop(w) ==
    IF w \in Senders /\ rx = "dropped" THEN "finish" ELSE AfterInsert(task[w].node)

\* let _ = notify_stats(..): whatever it returns is dropped, and
\* process_scan_item goes on with the directory's contents.
AfterNotify(w) == AfterInsert(task[w].node)

\* Scanner::notify_stats(root, tx, progress): under the progress mutex, count
\* the file, copy the root's size, and send a snapshot; tx.send waits while
\* the channel is full.
NotifyStats(w) ==
    /\ w \in Running
    /\ task[w].pc = "notify_stats"
    /\ (w \in Senders /\ rx = "open") => Len(chan) < ChannelCapacity
    /\ LET prog == [progress EXCEPT !.scaned_files = @ + 1,
                                    !.scaned_size = task[w].root.size]
       IN /\ progress' = prog
          /\ chan' = send(w, [prog EXCEPT !.current_path = task[w].root.path])
    /\ errors' = IF w \in Senders /\ rx = "dropped" THEN errors + 1 ELSE errors
    /\ task' = [task EXCEPT ![w].pc = AfterNotify(w)]
    /\ UNCHANGED <<treeVars, callVars, disk, concurrency, queue, workers, first,
                   lifeVars, requested, kept>>

\* if node.is_directory: process_directory(item.path, queue).
ProcessDirectory(w) ==
    /\ w \in Running
    /\ task[w].pc = "process_directory"
    /\ PastIo(w)
    /\ queue' = process_directory(task[w].item.path)
    /\ task' = [task EXCEPT ![w].pc = "loop"]
    /\ UNCHANGED <<treeVars, callVars, disk, concurrency, workers, progress, chan, first,
                   lifeVars, requested, kept, errors>>

\* None: leave the loop if should_exit_scan, else sleep and go round again;
\* the sleep is where an aborted task is dropped.
ShouldExitScan(w) ==
    /\ w \in Running
    /\ task[w].pc = "should_exit_scan"
    /\ task' = [task EXCEPT ![w] = IF should_exit_scan THEN [@ EXCEPT !.pc = "finish"]
                                   ELSE IF @.aborted THEN Cancelled
                                   ELSE [@ EXCEPT !.pc = "loop"]]
    /\ UNCHANGED <<treeVars, callVars, disk, concurrency, queue, workers, progress,
                   chan, first, lifeVars, requested, kept, errors>>

\* Past the loop: prog.is_scanning = false, prog.current_path = None.
Finish(w) ==
    /\ w \in Running
    /\ task[w].pc = "finish"
    /\ progress' = [progress EXCEPT !.is_scanning = FALSE, !.current_path = NoPath]
    /\ task' = [task EXCEPT ![w].pc = "done"]
    /\ UNCHANGED <<treeVars, callVars, disk, concurrency, queue, workers, chan, first,
                   lifeVars, requested, kept, errors>>

\* The tasks stop_scanning() can abort: those whose JoinHandle the Scanner holds.
Abortable == workers \cap Running

\* update_parent_size has no await: a task in it is being polled.
InWalk == {w \in Abortable : task[w].pc = "update_parent_size"}

\* worker.abort() for every JoinHandle, where polled are the tasks that are
\* being polled at that moment: they are marked, the others are dropped.
abort(polled) ==
    [w \in DOMAIN task |->
        IF w \notin Abortable THEN task[w]
        ELSE IF w \in polled
        THEN [task[w] EXCEPT !.aborted = TRUE, !.resumed = <<task[w].pc, task[w].count>>]
        ELSE Cancelled]

\* stop_progress as it would be if stop_scanning() reset the counters too.
stop_progress_and_reset(prog) == [prog EXCEPT !.is_scanning = FALSE, !.current_path = NoPath,
                                             !.scaned_files = 0, !.scaned_size = 0]

\* The end of stop_scanning(): prog.is_scanning = false, prog.current_path = None.
stop_progress(prog) == [prog EXCEPT !.is_scanning = FALSE, !.current_path = NoPath]

\* Scanner::stop_scanning(): clear the queue, abort every worker, drop the
\* JoinHandles, mark the progress.
StopScanning ==
    /\ \E polled \in SUBSET Abortable :
          /\ InWalk \subseteq polled
          /\ task' = abort(polled)
    /\ queue' = <<>>
    /\ workers' = {}
    /\ progress' = stop_progress(progress)
    /\ last' = "stop"
    /\ UNCHANGED <<treeVars, callVars, disk, concurrency, chan, first, scans, rx,
                   requested, kept, errors>>

\* ScanProgress::reset()
reset(prog) == [scaned_files |-> 0, scaned_size |-> 0, current_path |-> NoPath,
                is_scanning |-> FALSE]

\* The nodes that stay allocated when the Scanner lets go of its Tree: those
\* of the Trees the tasks in tasks still hold.
Held(tasks) ==
    UNION {Subtree(tasks[w].tree) : w \in {v \in DOMAIN tasks :
                                              tasks[v].pc \notin {"done", "cancelled"}}}

\* Scanner::clear(): stop_scanning(), clear the queue, put a new Tree of one
\* root in self.files, reset the progress.
Clear ==
    /\ \E polled \in SUBSET Abortable :
          /\ InWalk \subseteq polled
          /\ task' = abort(polled)
          /\ LET old == Held(abort(polled))
                 new == CHOOSE i \in 0..Cardinality(old) :
                            i \notin old /\ \A j \in 0..(i - 1) : j \in old
             IN /\ value' = [n \in old \cup {new} |->
                                IF n = new THEN FileNodeNew(<<RootDir>>, TRUE) ELSE value[n]]
                /\ count' = [n \in old \cup {new} |-> IF n = new THEN 0 ELSE count[n]]
                /\ children' = [n \in old \cup {new} |->
                                   IF n = new THEN <<>> ELSE children[n]]
                /\ parent' = [n \in old \cup {new} |-> IF n = new THEN None ELSE parent[n]]
                /\ root' = new
    /\ queue' = <<>>
    /\ workers' = {}
    /\ progress' = reset(stop_progress(progress))
    /\ last' = "clear"
    /\ UNCHANGED <<callVars, disk, concurrency, chan, first, scans, rx, requested, kept, errors>>

\* The runtime drops an aborted task at an await that suspends it.
Cancel(w) ==
    /\ w \in Running
    /\ task[w].aborted
    /\ task[w].pc # "update_parent_size"
    /\ task' = [task EXCEPT ![w] = Cancelled]
    /\ UNCHANGED <<treeVars, callVars, disk, concurrency, queue, workers, progress, chan,
                   first, lifeVars, requested, kept, errors>>

\* rx.recv() by the consumer of the stream (start_scan in lib.rs): the next
\* snapshot, or None once the channel is empty and every Sender is dropped.
Recv ==
    /\ rx = "open"
    /\ IF chan # <<>> THEN chan' = Tail(chan) /\ rx' = rx
       ELSE Senders = {} /\ rx' = "closed" /\ chan' = chan
    /\ UNCHANGED <<treeVars, callVars, disk, concurrency, queue, workers, progress, task,
                   first, scans, last, requested, kept, errors>>

\* The consumer drops the Receiver: nothing on the channel is read any more.
DropReceiver ==
    /\ rx = "open"
    /\ rx' = "dropped"
    /\ chan' = <<>>
    /\ UNCHANGED <<treeVars, callVars, disk, concurrency, queue, workers, progress, task,
                   first, scans, last, requested, kept, errors>>

\* ------------------------------------------------------------------ specifications

\* childrens.sort_by(|a, b| b.size.cmp(&a.size)): a stable sort, larger sizes
\* first.  SortInto puts the elements of seq from the i-th on into acc.
RECURSIVE SortInto(_, _, _)
SortInto(seq, i, acc) ==
    IF i > Len(seq) THEN acc
    ELSE LET k == Cardinality({j \in 1..Len(acc) : acc[j].size >= seq[i].size})
         IN SortInto(seq, i + 1,
                     SubSeq(acc, 1, k) \o <<seq[i]>> \o SubSeq(acc, k + 1, Len(acc)))

sort_by_size(seq) == SortInto(seq, 1, <<>>)

\* Scanner::get_file_node(path): the FileDetails of the node get_node finds,
\* with the FileDetails of its children, sorted; None when it finds none.
get_file_node(path) ==
    LET node == get_node(path)
    IN IF node = None
       THEN [op |-> "get_file_node", key |-> path, value |-> NoFile, result |-> "None",
             node |-> None, children |-> <<>>]
       ELSE [op |-> "get_file_node", key |-> path, value |-> value[node], result |-> "Some",
             node |-> node,
             children |-> sort_by_size([i \in 1..Len(children[node]) |->
                                           value[children[node][i]]])]

\* A call of get_file_node(path) by the application (get_folder_stats).
GetFolderStats(path) ==
    /\ ret' = get_file_node(path)
    /\ UNCHANGED <<treeVars, caller, disk, concurrency, scanVars, first, lifeVars,
                   requested, kept, errors>>

\* ------------------------------------------------------------------ locks

\* The threads that take locks: the worker tasks, and the one command the
\* application runs at a time under its Mutex<Scanner>.
Caller == 0
Threads == Running \cup {Caller}

\* Who holds the tokio Mutex of the Tree whose root is tree: a worker from
\* tree.lock().await to the end of files.insert(..), the caller from
\* self.files.lock().await to the end of get_file_node.
MutexHolders(tree) ==
    {w \in Running : task[w].tree = tree
                     /\ task[w].pc \in {"insert_node", "add_child", "count_walk",
                                        "count_add"}}
    \cup {t \in {Caller} : root = tree /\ caller \in {"locked", "reading"}}

\* Who holds the RwLock of node n for writing, and for reading: a worker
\* holds its new node for reading all through update_parent_size, the caller
\* holds the node it was asked for while it reads the children.
WriteHolders(n) == {w \in Running : n \in task[w].wlocks}
ReadHolders(n) ==
    {w \in Running : task[w].new_node = n
                     /\ task[w].pc \in {"update_parent_size", "size_add"}}
    \cup {t \in {Caller} : caller = "reading" /\ ret.node = n}
Holders(n) == WriteHolders(n) \cup ReadHolders(n)

\* The lock thread t is about to take, None when it is about to take none:
\* the Mutex of a Tree,
MutexWanted(t) ==
    IF t = Caller THEN (IF caller = "get_file_node" THEN root ELSE None)
    ELSE IF t \notin Running THEN None
    ELSE IF task[t].pc = "get_file_node" THEN task[t].tree
    ELSE IF task[t].pc = "process_scan_item" /\ MetadataOk(task[t].item.path)
    THEN task[t].tree
    ELSE None

\* a node for writing (parent.write() in insert_node and in update_parent_size),
WriteWanted(t) ==
    IF t \notin Running THEN None
    ELSE IF task[t].pc = "insert_node" THEN get_node_in(task[t].tree, task[t].item.parent)
    ELSE IF task[t].pc = "count_walk" THEN parent[task[t].cursor]
    ELSE IF task[t].pc = "update_parent_size" THEN task[t].cursor
    ELSE None

\* a node for reading (node.read() in update_parent_size and in get_file_node).
ReadWanted(t) ==
    IF t = Caller
    THEN IF caller = "locked" THEN ret.node
         ELSE IF caller = "reading" /\ Len(ret.children) < Len(children[ret.node])
         THEN children[ret.node][Len(ret.children) + 1]
         ELSE None
    ELSE IF t \in Running /\ task[t].pc = "read_node" THEN task[t].new_node
    ELSE None

\* The threads parked in write() on node n.
WaitingWriters(n) == {w \in Running : WriteWanted(w) = n /\ Holders(n) \ {w} # {}}

\* RwLock::write() returns when nobody else holds the lock.  RwLock::read()
\* returns when nobody holds it for writing and no writer is parked on it:
\* std::sync::RwLock leaves the policy to the platform, and its futex and
\* queue implementations make a reader wait behind a parked writer.  (A
\* state in which a reader holds the lock and a writer is parked is reached
\* either way: the reader came first.)
CanWrite(t, n) == Holders(n) \ {t} = {}
CanRead(t, n) == WriteHolders(n) \ {t} = {} /\ WaitingWriters(n) \ {t} = {}

\* Thread t cannot go on before thread u has.
WaitsFor(t, u) ==
    /\ t # u
    /\ \/ MutexWanted(t) # None /\ u \in MutexHolders(MutexWanted(t))
       \/ WriteWanted(t) # None /\ u \in Holders(WriteWanted(t))
       \/ ReadWanted(t) # None
          /\ u \in WriteHolders(ReadWanted(t)) \cup WaitingWriters(ReadWanted(t))

\* process_scan_item up to tree.lock().await: fs::metadata(path), an Err of
\* which ends the turn, then the Mutex of the Tree.
LockTree(w) ==
    /\ w \in Running
    /\ task[w].pc = "process_scan_item"
    /\ PastIo(w)
    /\ IF ~MetadataOk(task[w].item.path)
       THEN task' = [task EXCEPT ![w].pc = "loop"]
       ELSE /\ MutexHolders(task[w].tree) = {}
            /\ task' = [task EXCEPT ![w].node = obtain_file_node(task[w].item.path),
                                    ![w].pc = "insert_node"]
    /\ UNCHANGED <<treeVars, callVars, disk, concurrency, queue, workers, progress, chan,
                   first, lifeVars, requested, kept, errors>>

\* insert_node up to parent_node.write(): get_node(parent), an Err of which
\* gives the Mutex back, then the write lock of the node it found (cursor).
InsertNode(w) ==
    /\ w \in Running
    /\ task[w].pc = "insert_node"
    /\ LET p == get_node_in(task[w].tree, task[w].item.parent)
       IN IF p = None
          THEN task' = [task EXCEPT ![w].new_node = None,
                                    ![w].pc = AfterInsert(task[w].node)]
          ELSE /\ CanWrite(w, p)
               /\ task' = [task EXCEPT ![w].cursor = p, ![w].wlocks = @ \cup {p},
                                       ![w].pc = "add_child"]
    /\ UNCHANGED <<treeVars, callVars, disk, concurrency, queue, workers, progress, chan,
                   first, lifeVars, requested, kept, errors>>

\* The block under parent_node.write(): add_child and, under
\* new_node.write(), node.parent; both guards are dropped at the end of the
\* block.  RootIter { node: new_node } then yields the parent first.
AddChild(w) ==
    /\ w \in Running
    /\ task[w].pc = "add_child"
    /\ LET p == task[w].cursor
           n == NewId
       IN /\ value' = value @@ (n :> task[w].node)
          /\ children' = [children EXCEPT ![p] = Append(@, n)] @@ (n :> <<>>)
          /\ parent' = parent @@ (n :> p)
          /\ count' = add_child(count @@ (n :> 0), p, 0)
          /\ UNCHANGED root
          /\ task' = [task EXCEPT ![w].new_node = n, ![w].wlocks = @ \ {p},
                                  ![w].pc = IF parent[p] = None THEN "read_node"
                                            ELSE "count_walk"]
    /\ UNCHANGED <<callVars, disk, concurrency, queue, workers, progress, chan, first,
                   lifeVars, requested, kept, errors>>

\* The loop of insert_node, for the node RootIter yielded (cursor):
\* parent.write() on the node above it.
CountAcquire(w) ==
    /\ w \in Running
    /\ task[w].pc = "count_walk"
    /\ CanWrite(w, parent[task[w].cursor])
    /\ task' = [task EXCEPT ![w].wlocks = @ \cup {parent[task[w].cursor]},
                            ![w].pc = "count_add"]
    /\ UNCHANGED <<treeVars, callVars, disk, concurrency, queue, workers, progress, chan,
                   first, lifeVars, requested, kept, errors>>

\* parent_node.count += child_node.total_count(); the guards of the match
\* are dropped at its end and RootIter moves up; when it has yielded the
\* root insert_node returns, and process_scan_item drops the Mutex.
CountAdd(w) ==
    /\ w \in Running
    /\ task[w].pc = "count_add"
    /\ LET up == parent[task[w].cursor]
       IN /\ count' = [count EXCEPT ![up] = @ + total_count(count, task[w].new_node)]
          /\ task' = [task EXCEPT ![w].wlocks = @ \ {up}, ![w].cursor = up,
                                  ![w].pc = IF parent[up] = None THEN "read_node"
                                            ELSE "count_walk"]
    /\ UNCHANGED <<value, children, parent, root, callVars, disk, concurrency, queue,
                   workers, progress, chan, first, lifeVars, requested, kept, errors>>

\* update_parent_size(node): node.read(), held to the end of the walk, which
\* starts at node.get_parent().
ReadNode(w) ==
    /\ w \in Running
    /\ task[w].pc = "read_node"
    /\ CanRead(w, task[w].new_node)
    /\ task' = [task EXCEPT ![w].cursor = parent[task[w].new_node],
                            ![w].pc = "update_parent_size"]
    /\ UNCHANGED <<treeVars, callVars, disk, concurrency, queue, workers, progress, chan,
                   first, lifeVars, requested, kept, errors>>

\* The loop of update_parent_size: parent.write() on the node at the cursor.
SizeAcquire(w) ==
    /\ w \in Running
    /\ task[w].pc = "update_parent_size"
    /\ CanWrite(w, task[w].cursor)
    /\ task' = [task EXCEPT ![w].wlocks = @ \cup {task[w].cursor}, ![w].pc = "size_add"]
    /\ UNCHANGED <<treeVars, callVars, disk, concurrency, queue, workers, progress, chan,
                   first, lifeVars, requested, kept, errors>>

\* The body of the loop as it would be if the guards of the nodes it has
\* passed were kept to the end of the walk.
SizeAddKeepingGuards(w) ==
    /\ w \in Running
    /\ task[w].pc = "size_add"
    /\ LET up == task[w].cursor
       IN /\ value' = [value EXCEPT ![up].size = @ + value[task[w].new_node].size]
          /\ task' = [task EXCEPT ![w].wlocks = IF parent[up] = None THEN {} ELSE @,
                                  ![w].cursor = parent[up],
                                  ![w].pc = IF parent[up] = None THEN "get_file_node"
                                            ELSE "update_parent_size"]
    /\ UNCHANGED <<count, children, parent, root, callVars, disk, concurrency, queue,
                   workers, progress, chan, first, lifeVars, requested, kept, errors>>

\* The body of the loop: node.size += new_size, item = value.get_parent(),
\* and the guard `value` is dropped at the end of the if let, before the next
\* parent.write(); past the root the read guard of the new node is dropped.
SizeAdd(w) ==
    /\ w \in Running
    /\ task[w].pc = "size_add"
    /\ LET up == task[w].cursor
       IN /\ value' = [value EXCEPT ![up].size = @ + value[task[w].new_node].size]
          /\ task' = [task EXCEPT ![w].wlocks = @ \ {up},
                                  ![w].cursor = parent[up],
                                  ![w].pc = IF parent[up] = None THEN "get_file_node"
                                            ELSE "update_parent_size"]
    /\ UNCHANGED <<count, children, parent, root, callVars, disk, concurrency, queue,
                   workers, progress, chan, first, lifeVars, requested, kept, errors>>

\* _get_file_node(tree, "/") with its locks: the Mutex of the Tree, then
\* node.read() on the root for the time of the copy.
LockedGetFileNode(w) ==
    /\ w \in Running
    /\ MutexHolders(task[w].tree) = {}
    /\ CanRead(w, task[w].tree)
    /\ GetFileNode(w)

\* A step of the task w, lock by lock.
LockWorker(w) ==
    \/ Pop(w)
    \/ SetCurrentPath(w)
    \/ LockTree(w)
    \/ InsertNode(w)
    \/ AddChild(w)
    \/ CountAcquire(w)
    \/ CountAdd(w)
    \/ ReadNode(w)
    \/ SizeAcquire(w)
    \/ SizeAdd(w)
    \/ LockedGetFileNode(w)
    \/ NotifyStats(w)
    \/ ProcessDirectory(w)
    \/ ShouldExitScan(w)
    \/ Finish(w)

\* The application calls get_file_node(path) (get_folder_stats).
CallGetFileNode(path) ==
    /\ caller = "running"
    /\ caller' = "get_file_node"
    /\ ret' = [op |-> "get_file_node", key |-> path, value |-> NoFile,
               result |-> "pending", node |-> None, children |-> <<>>]
    /\ UNCHANGED <<treeVars, disk, concurrency, scanVars, first, lifeVars, requested,
                   kept, errors>>

\* self.files.lock().await and tree.get_node(path); None returns at once.
CallerLockTree ==
    /\ caller = "get_file_node"
    /\ MutexHolders(root) = {}
    /\ IF get_node(ret.key) = None
       THEN /\ ret' = get_file_node(ret.key)
            /\ caller' = "running"
       ELSE /\ ret' = [ret EXCEPT !.node = get_node(ret.key)]
            /\ caller' = "locked"
    /\ UNCHANGED <<treeVars, disk, concurrency, scanVars, first, lifeVars, requested,
                   kept, errors>>

\* node.read(), held to the end of the call: FileDetails::from(node.get_value()).
CallerReadNode ==
    /\ caller = "locked"
    /\ CanRead(Caller, ret.node)
    /\ ret' = [ret EXCEPT !.value = value[ret.node]]
    /\ caller' = "reading"
    /\ UNCHANGED <<treeVars, disk, concurrency, scanVars, first, lifeVars, requested,
                   kept, errors>>

\* The filter_map over node.children: node.read() on the next child, for
\* the time of the copy.
CallerReadChild ==
    /\ caller = "reading"
    /\ Len(ret.children) < Len(children[ret.node])
    /\ LET child == children[ret.node][Len(ret.children) + 1]
       IN /\ CanRead(Caller, child)
          /\ ret' = [ret EXCEPT !.children = Append(@, value[child])]
    /\ UNCHANGED <<treeVars, caller, disk, concurrency, scanVars, first, lifeVars,
                   requested, kept, errors>>

\* The children are sorted and the call returns: every guard is dropped.
CallerReturn ==
    /\ caller = "reading"
    /\ Len(ret.children) = Len(children[ret.node])
    /\ ret' = [ret EXCEPT !.children = sort_by_size(@), !.result = "Some"]
    /\ caller' = "running"
    /\ UNCHANGED <<treeVars, disk, concurrency, scanVars, first, lifeVars, requested,
                   kept, errors>>

\* Scanner::get_progress(): a clone of the progress, under its Mutex.
get_progress ==
    [op |-> "get_progress", key |-> NoPath, value |-> NoFile, result |-> "Ok",
     node |-> None, progress |-> progress]

\* The application calls get_progress() (get_scan_progress).
CallGetProgress ==
    /\ caller = "running"
    /\ ret' = get_progress
    /\ UNCHANGED <<treeVars, caller, disk, concurrency, scanVars, first, lifeVars,
                   requested, kept, errors>>

\* Tree::from_value(FileNode::new("/", true))
InitTree ==
    /\ value = (0 :> FileNodeNew(<<RootDir>>, TRUE))
    /\ count = (0 :> 0)
    /\ children = (0 :> <<>>)
    /\ parent = (0 :> None)
    /\ root = 0
    /\ ret = [op |-> "new", key |-> <<>>, value |-> FileNodeNew(<<RootDir>>, TRUE),
              result |-> "Ok", node |-> 0]
    /\ caller = "running"

\* Scanner::new(concurrency), its tree included.
InitScanner ==
    /\ InitTree
    /\ queue = <<>>
    /\ workers = {}
    /\ progress = [scaned_files |-> 0, scaned_size |-> 0, current_path |-> NoPath,
                   is_scanning |-> FALSE]
    /\ chan = <<>>
    /\ task = <<>>
    /\ first = [done |-> FALSE, count |-> 0, size |-> 0]
    /\ scans = 0
    /\ last = "new"
    /\ rx = "none"
    /\ kept = <<>>
    /\ errors = 0

\* The Tree on its own, as its tests use it.
Init ==
    /\ InitScanner
    /\ disk = DiskFlat
    /\ concurrency = 1
    /\ requested = <<RootDir>>

Next ==
    \/ \E key \in Keys, v \in Values : Insert(key, v)
    \/ \E key \in Keys : Remove(key)
    \/ \E key \in Keys : GetNode(key)

Spec == Init /\ [][Next]_vars

\* One scan, lock by lock, of a directory tree with a file and a directory,
\* while the application asks for the root and for progress; its commands
\* run one at a time, under the Mutex<Scanner> of the application.
LockInit ==
    /\ InitScanner
    /\ disk = DiskMixed
    /\ concurrency \in 1..MaxConcurrency
    /\ requested = <<RootDir>>

LockNext ==
    \/ (caller = "running" /\ Start)
    \/ (\E w \in WorkerIds : LockWorker(w))
    \/ CallGetFileNode(<<RootDir>>)
    \/ CallerLockTree
    \/ CallerReadNode
    \/ CallerReadChild
    \/ CallerReturn
    \/ CallGetProgress

LockSpec == LockInit /\ [][LockNext]_vars

\* The Tree with callers that also hold the NodeRefs get_node hands out and
\* call Node.remove_child on them.
NodeNext ==
    \/ \E key \in Keys, v \in Values : Insert(key, v)
    \/ \E n \in 0..(MaxNodes - 1), key \in Keys : RemoveChild(n, key)

NodeSpec == Init /\ [][NodeNext]_vars

\* The paths a caller hands to start_scan: the root, or a directory in it.
RootPaths == {path \in DOMAIN disk : disk[path].is_dir /\ Len(path) <= 2}

\* One scan of a directory tree by a Scanner of 1..MaxConcurrency workers.
ScanInit ==
    /\ InitScanner
    /\ disk \in Disks
    /\ concurrency \in 1..MaxConcurrency
    /\ requested \in RootPaths

\* A step of the task w: the body of the future start() spawns.
Worker(w) ==
    \/ Pop(w)
    \/ SetCurrentPath(w)
    \/ ProcessScanItem(w)
    \/ UpdateParentSize(w)
    \/ GetFileNode(w)
    \/ NotifyStats(w)
    \/ ProcessDirectory(w)
    \/ ShouldExitScan(w)
    \/ Finish(w)

ScanNext ==
    \/ Start
    \/ \E w \in WorkerIds : Worker(w)

ScanSpec == ScanInit /\ [][ScanNext]_vars

\* Every spawned worker has left its loop and ended.
AllExited == workers # {} /\ \A w \in workers : task[w].pc = "done"

\* Two scans of the same directory tree: the first by Scanner::new(1), and
\* once it has run to completion a second by Scanner::new(n), n > 1.
PairInit ==
    /\ InitScanner
    /\ disk \in Disks
    /\ concurrency = 1
    /\ requested = <<RootDir>>

Rerun ==
    /\ AllExited
    /\ ~first.done
    /\ first' = [done |-> TRUE, count |-> count[root], size |-> value[root].size]
    /\ concurrency' \in 2..MaxConcurrency
    /\ value' = (0 :> FileNodeNew(<<RootDir>>, TRUE))
    /\ count' = (0 :> 0)
    /\ children' = (0 :> <<>>)
    /\ parent' = (0 :> None)
    /\ root' = 0
    /\ queue' = <<>>
    /\ workers' = {}
    /\ progress' = [scaned_files |-> 0, scaned_size |-> 0, current_path |-> NoPath,
                    is_scanning |-> FALSE]
    /\ chan' = <<>>
    /\ task' = <<>>
    /\ scans' = 0
    /\ last' = "new"
    /\ rx' = "none"
    /\ UNCHANGED <<callVars, disk, requested, kept, errors>>

PairNext ==
    \/ ScanNext
    \/ Rerun

PairSpec == PairInit /\ [][PairNext]_vars

\* One scan of a directory tree, with the consumer of its progress stream,
\* under fair scheduling: a task that can step does step, and the consumer
\* keeps receiving.
LiveInit ==
    /\ InitScanner
    /\ disk \in {DiskFlat, DiskDeep}
    /\ concurrency \in 1..MaxConcurrency
    /\ requested = <<RootDir>>

LiveNext ==
    \/ Start
    \/ (\E w \in WorkerIds : Worker(w))
    \/ Recv

LiveSpec ==
    /\ LiveInit
    /\ [][LiveNext]_vars
    /\ \A w \in WorkerIds : WF_vars(Worker(w))
    /\ WF_vars(Recv)

\* One scan of a directory tree that holds a symbolic link.
LinkInit ==
    /\ InitScanner
    /\ disk \in LinkDisks
    /\ concurrency \in 1..MaxConcurrency
    /\ requested = <<RootDir>>

LinkNext ==
    \/ Start
    \/ \E w \in WorkerIds : Worker(w)

LinkSpec == LinkInit /\ [][LinkNext]_vars

\* One scan of a directory tree on which some of the calls to the OS fail.
FaultInit ==
    /\ InitScanner
    /\ disk \in FaultyDisks
    /\ concurrency \in 1..MaxConcurrency
    /\ requested = <<RootDir>>

FaultNext ==
    \/ Start
    \/ \E w \in WorkerIds : Worker(w)

FaultSpec == FaultInit /\ [][FaultNext]_vars

\* One scan by the Scanner the application builds, with get_folder_stats
\* calls at any point of it, for the paths of the directory tree.
QueryInit ==
    /\ InitScanner
    /\ disk \in Disks
    /\ concurrency = 1
    /\ requested = <<RootDir>>

QueryNext ==
    \/ Start
    \/ (\E w \in WorkerIds : Worker(w))
    \/ \E path \in DOMAIN disk : GetFolderStats(path)

QuerySpec == QueryInit /\ [][QueryNext]_vars

\* The lifecycle state of the Scanner: Idle when new or cleared, Scanning
\* from start() until the workers it spawned have all ended, Completed from
\* then on, Stopped after stop_scanning().
LifeState ==
    IF last \in {"new", "clear"} THEN "Idle"
    ELSE IF last = "stop" THEN "Stopped"
    ELSE IF Senders = {} THEN "Completed"
    ELSE "Scanning"

\* The commands of the application on the Scanner it builds, Scanner::new(1),
\* in any order and one at a time (each holds the Mutex<Scanner>), while the
\* tasks run: start_scan (clear() and then start()), stop_folder_scan
\* (stop_scanning()) and clear_folder_scan (clear()), up to the last start()
\* of the model.
LifeInit ==
    /\ InitScanner
    /\ disk \in {DiskFlat, DiskMixed}
    /\ concurrency = 1
    /\ requested = <<RootDir>>

LifeNext ==
    \/ start_scan
    \/ (\E w \in WorkerIds : Worker(w))
    \/ (scans < MaxScans /\ StopScanning)
    \/ (scans < MaxScans /\ Clear)
    \/ \E w \in WorkerIds : Cancel(w)

LifeSpec == LifeInit /\ [][LifeNext]_vars

\* One scan by Scanner::new(1), and the calls that end it.
StopInit ==
    /\ InitScanner
    /\ disk \in Disks
    /\ concurrency = 1
    /\ requested = <<RootDir>>

StopNext ==
    \/ (scans = 0 /\ Start)
    \/ \E w \in WorkerIds : Worker(w)
    \/ StopScanning
    \/ Clear
    \/ \E w \in WorkerIds : Cancel(w)

StopSpec == StopInit /\ [][StopNext]_vars

\* One scan by 1..MaxConcurrency workers, which stop_scanning() may end, and
\* the consumer of its stream.  The runtime goes on polling every task that
\* can run and drops every aborted task, and the consumer goes on receiving.
StreamInit ==
    /\ InitScanner
    /\ disk \in {DiskFlat, DiskNested}
    /\ concurrency \in 1..MaxConcurrency
    /\ requested = <<RootDir>>

StreamNext ==
    \/ (scans = 0 /\ Start)
    \/ \E w \in WorkerIds : Worker(w)
    \/ StopScanning
    \/ \E w \in WorkerIds : Cancel(w)
    \/ Recv

StreamSpec ==
    /\ StreamInit
    /\ [][StreamNext]_vars
    /\ \A w \in WorkerIds : WF_vars(Worker(w)) /\ WF_vars(Cancel(w))
    /\ WF_vars(Recv)

\* Two scans of the same directory tree by Scanner::new(1): the consumer of
\* the first keeps the Receiver until the stream closes; the consumer of the
\* second may drop it at any moment.
DropInit ==
    /\ InitScanner
    /\ disk \in Disks
    /\ concurrency = 1
    /\ requested = <<RootDir>>

Again ==
    /\ AllExited
    /\ rx = "closed"
    /\ kept = <<>>
    /\ kept' = <<value, count, children, parent, root>>
    /\ value' = (0 :> FileNodeNew(<<RootDir>>, TRUE))
    /\ count' = (0 :> 0)
    /\ children' = (0 :> <<>>)
    /\ parent' = (0 :> None)
    /\ root' = 0
    /\ queue' = <<>>
    /\ workers' = {}
    /\ progress' = [scaned_files |-> 0, scaned_size |-> 0, current_path |-> NoPath,
                    is_scanning |-> FALSE]
    /\ chan' = <<>>
    /\ task' = <<>>
    /\ scans' = 0
    /\ last' = "new"
    /\ rx' = "none"
    /\ UNCHANGED <<callVars, disk, concurrency, first, requested, errors>>

DropNext ==
    \/ ScanNext
    \/ Recv
    \/ (kept # <<>> /\ DropReceiver)
    \/ Again

DropSpec == DropInit /\ [][DropNext]_vars

\* ------------------------------------------------------------------ properties

InTree == IF root = None THEN {} ELSE Subtree(root)

RECURSIVE SumTotalCount(_)
SumTotalCount(kids) ==
    IF kids = <<>> THEN 0 ELSE count[Head(kids)] + 1 + SumTotalCount(Tail(kids))

RECURSIVE SumSize(_)
SumSize(kids) ==
    IF kids = <<>> THEN 0 ELSE value[Head(kids)].size + SumSize(Tail(kids))

\* The absolute path of a node: the names of the nodes above it, from the root
\* down, and its own name.
PathOf(n) == PushParents(RootIter(n), value[n].path)

\* The nodes a key names: those whose path, read from the root down, is key.
Named(key) == {n \in InTree : PathOf(n) = key}

\* C1: after any sequence of inserts, every node's count is the sum over its
\* immediate children of (child.count + 1), and Tree.size() is the number of
\* nodes of the tree.
C1_CountIsSumOverChildren ==
    /\ \A n \in Nodes : count[n] = SumTotalCount(children[n])
    /\ size = Cardinality(InTree)

\* C1 witness: an insert has put a node two levels below the root.
C1_Witness ==
    /\ ret.op = "insert" /\ ret.result = "Ok"
    /\ parent[ret.node] # None
    /\ parent[parent[ret.node]] = root
    /\ count[root] = 2

\* A popped item that is not fully expanded yet is in the hands of worker v.
Expanding(v) ==
    task[v].pc \in {"current_path", "process_scan_item", "update_parent_size",
                    "get_file_node", "notify_stats", "process_directory"}

\* C2: a worker leaves its scan loop only when the queue is empty and no
\* other worker holds a popped item that is not fully expanded yet.
C2_ExitOnlyWithoutOutstandingWork ==
    [][\A w \in WorkerIds :
          (/\ w \in workers
           /\ task[w].pc \notin {"finish", "done"}
           /\ task'[w].pc = "finish") =>
              /\ queue = <<>>
              /\ \A v \in workers \ {w} : ~Expanding(v)]_vars

\* The entries below the root of the directory tree, and the bytes of its files.
Entries == DOMAIN disk \ {<<RootDir>>}

RECURSIVE SumLen(_)
SumLen(paths) ==
    IF paths = {} THEN 0
    ELSE LET path == CHOOSE q \in paths : TRUE
         IN disk[path].len + SumLen(paths \ {path})

FileBytes == SumLen({path \in Entries : ~disk[path].is_dir})

\* C3: once a scan has run to completion (every worker has ended and nothing
\* is left on the queue) the tree holds one node per entry below the root,
\* the root's total_count is 1 + the number of entries, the root's size is
\* the sum of the sizes of the files, and is_scanning is false.
C3_CompletedScanHoldsEveryEntry ==
    (AllExited /\ queue = <<>>) =>
        /\ \A path \in Entries : Cardinality({n \in InTree : value[n].path = path}) = 1
        /\ total_count(count, root) = 1 + Cardinality(Entries)
        /\ value[root].size = FileBytes
        /\ progress.is_scanning = FALSE

\* C4: a scan by one worker and a scan by several workers of the same
\* directory tree, both run to completion, end with the same root count and
\* the same root size.
C4_SameTotalsForAnyConcurrency ==
    (first.done /\ AllExited) =>
        /\ count[root] = first.count
        /\ value[root].size = first.size

\* C5: whenever is_scanning is false after a scan was started, the size of
\* every directory node is the sum of the sizes of its immediate children.
C5_IdleDirectorySizeIsSumOfChildren ==
    (workers # {} /\ ~progress.is_scanning) =>
        \A n \in InTree : value[n].is_directory => value[n].size = SumSize(children[n])

\* C6: after insert(parent, entry) succeeds for an existing parent path,
\* get_node(parent/entry.name) is the new node, and its entry is the inserted
\* one (checked where the parent path names the parent the node was put under
\* and no other child of that parent carries the new name).
C6_InsertThenGetNode ==
    (/\ ret.op = "insert" /\ ret.result = "Ok"
     /\ PathOf(parent[ret.node]) = ret.key
     /\ \A c \in Range(children[parent[ret.node]]) :
            c # ret.node => value[c].path # ret.value.path) =>
        LET got == get_node(ret.key \o ret.value.path)
        IN got = ret.node /\ value[got] = ret.value

\* C7: get_node(path) is None whenever path names no node of the tree.
C7_AbsentPathIsNone ==
    /\ \A key \in Keys : Named(key) = {} => get_node(key) = None
    /\ (ret.op = "get_node" /\ Named(ret.key) = {}) => ret.node = None

\* C8: a step in which remove(path) succeeds leaves get_node(path) = None and
\* lowers the count and size of every ancestor of the removed node by the
\* removed subtree's total_count and size.
C8_RemoveDetachesAndSubtracts ==
    [][(ret'.op = "remove" /\ ret'.result = "Ok") =>
          /\ \A key \in Keys : ret'.key = key => get_node(key)' = None
          /\ \A anc \in Range(RootIter(ret'.node)) :
                /\ count'[anc] = count[anc] - total_count(count, ret'.node)
                /\ value'[anc].size = value[anc].size - value[ret'.node].size]_vars

\* C9: a step in which insert is called with a parent path that names no node
\* fails with "parent not found" and leaves the tree unchanged.
C9_InsertUnderAbsentParentFails ==
    [][(ret'.op = "insert" /\ Named(ret'.key) = {}) =>
          /\ ret'.result = "parent not found"
          /\ UNCHANGED treeVars
          /\ size' = size]_vars

\* C10: a step in which remove is called with a path that names no node fails
\* with "not found" and leaves the tree unchanged, and no remove detaches a
\* node other than the one its path names.
C10_RemoveAbsentFails ==
    [][(ret'.op = "remove") =>
          /\ Named(ret'.key) = {} => (ret'.result = "not found" /\ UNCHANGED treeVars)
          /\ InTree \ InTree' \subseteq Named(ret'.key)]_vars

\* C11: once stop_scanning() has returned, the queue is empty and stays empty
\* until the next start(): no worker that was expanding a directory when it
\* was called puts children on the queue afterwards.
C11_QueueStaysEmptyAfterStop ==
    last = "stop" => queue = <<>>

\* C12: once stop_scanning() has returned, and until the next start(),
\* is_scanning is false, no snapshot is sent on the progress stream, and the
\* progress counters do not change.
C12_NoProgressAfterStop ==
    [][(last = "stop" /\ last' = "stop") =>
          /\ ~progress'.is_scanning
          /\ Len(chan') <= Len(chan)
          /\ progress'.scaned_files = progress.scaned_files
          /\ progress'.scaned_size = progress.scaned_size]_vars

\* C13: a call of stop_scanning() leaves the Tree as it is, every node with
\* its size and count, and leaves the scanned-files and scanned-size
\* counters; it empties the queue and the worker set and sets is_scanning
\* false and current_path None.
C13_StopLeavesTreeAndCounters ==
    [][StopScanning =>
          /\ UNCHANGED treeVars
          /\ progress'.scaned_files = progress.scaned_files
          /\ progress'.scaned_size = progress.scaned_size
          /\ queue' = <<>>
          /\ workers' = {}
          /\ ~progress'.is_scanning
          /\ progress'.current_path = NoPath]_vars

\* C13 witness: stop_scanning() has returned in the middle of a scan: part of
\* the entries are in the tree, and the counters still count them.
C13_Witness ==
    /\ last = "stop"
    /\ workers = {}
    /\ count[root] >= 1
    /\ count[root] < Cardinality(DOMAIN disk) - 1
    /\ progress.scaned_files >= 1
    /\ \E w \in DOMAIN task : task[w].pc = "cancelled"

\* C14: once clear() has returned, and until the next start(), the tree is a
\* single root with no children, count 0 and size 0, the queue is empty, and
\* the progress is zero files, zero bytes, no current path, not scanning.
C14_ClearedStaysCleared ==
    last = "clear" =>
        /\ value[root] = FileNodeNew(<<RootDir>>, TRUE)
        /\ children[root] = <<>>
        /\ count[root] = 0
        /\ parent[root] = None
        /\ queue = <<>>
        /\ progress = reset(progress)

C16_OnlySpawnedWorkersRun ==
    last = "start" =>
        /\ Running \subseteq workers
        /\ Cardinality(Running) <= concurrency

\* path is root_path or lies below it.
IsUnder(path, root_path) ==
    /\ Len(path) >= Len(root_path)
    /\ SubSeq(path, 1, Len(root_path)) = root_path

\* C17: a scan started by start_scan(path) crawls the subtree under path:
\* every item on the queue, from the seeding on, and every node of the
\* tree is the entry for path or lies below it.
C17_ScanCrawlsRequestedRoot ==
    scans > 0 =>
        /\ \A i \in 1..Len(queue) : IsUnder(queue[i].path, requested)
        /\ \A n \in InTree : IsUnder(value[n].path, requested)

\* The tasks of the current scan that have inserted an entry and have not
\* yet published it.
InFlight ==
    {w \in Senders : task[w].pc \in {"update_parent_size", "get_file_node", "notify_stats"}}

\* C18: during a scan, the scanned-files count is the number of snapshots
\* sent on the stream of the scan, and it is the number of entries inserted
\* in the tree of the scan, less those a worker is about to publish.
C18_OneSnapshotPerInsertion ==
    last = "start" =>
        /\ progress.scaned_files = Len(chan)
        /\ progress.scaned_files + Cardinality(InFlight) = Cardinality(InTree) - 1

\* C19: a scan whose progress receiver is dropped, at any point, goes on (a
\* worker that has not left its loop can take a step) and, once its workers
\* have all exited, has built the tree that the scan with the receiver kept
\* and drained built.
C19_DroppedReceiverSameTree ==
    /\ (kept # <<>> /\ rx = "dropped" /\ ~AllExited) => \E w \in workers : ENABLED Worker(w)
    /\ (kept # <<>> /\ AllExited) => <<value, count, children, parent, root>> = kept

\* C19 witness: the second scan has run to completion with its receiver
\* dropped, and at least two sends have failed.
C19_Witness ==
    /\ kept # <<>>
    /\ AllExited
    /\ rx = "dropped"
    /\ errors >= 2
    /\ count[root] >= 2

\* C20: the progress stream is closed only when no worker of the scan is
\* left that could publish a snapshot (each has finished, or has been
\* aborted and dropped), and with a consumer that drains it a stream that
\* is open is eventually closed.
C20_StreamClosesAfterWorkers ==
    /\ [](rx = "closed" => (chan = <<>> /\ \A w \in Running : task[w].scan # scans))
    /\ ((rx = "open") ~> (rx = "closed"))

\* C20 witness: the stream has closed after a scan by two workers that was
\* stopped, one worker aborted and the other one finished.
C20_Witness ==
    /\ rx = "closed"
    /\ Cardinality(DOMAIN task) = 2
    /\ \E w \in DOMAIN task : task[w].pc = "cancelled"
    /\ \E w \in DOMAIN task : task[w].pc = "done"
    /\ count[root] >= 1

\* The entries a scan has to hold although calls fail: the entries, other
\* than the one whose next_entry() call fails, of the directories that can be
\* listed, as long as their own metadata can be fetched.
RECURSIVE Survivors(_)
Survivors(item) ==
    IF ~ReadDirOk(item) THEN {}
    ELSE LET dir == disk[Lookup(item)]
             kept_paths == {item \o <<dir.entries[i]>> :
                               i \in {j \in 1..Len(dir.entries) : j # dir.bad}}
             ok == {path \in kept_paths : MetadataOk(path)}
         IN ok \cup UNION {Survivors(path) : path \in ok}

\* C21: once the workers of a scan on which calls to the OS failed have all
\* exited, the tree holds every entry but the failed ones and what lies
\* below them: the other entries of the same listing are there too.
C21_FailureLosesOnlyItsEntry ==
    AllExited =>
        \A path \in Survivors(<<RootDir>>) : \E n \in InTree : value[n].path = path

\* C22: when the root cannot be read at start() time, start() hands its
\* caller a failure, and is_scanning is not left true.
C22_UnreadableRootFailsStart ==
    (ret.op = "start" /\ ~ReadDirOk(ret.key)) =>
        /\ ret.result # "Ok"
        /\ ~progress.is_scanning

\* The nodes of the tree that carry the path key.
Known(key) == {n \in InTree : value[n].path = key}

\* C23: get_file_node(path), for a path that a node of the tree carries,
\* returns the stats of that node and the stats of exactly its immediate
\* children, each once, a child of larger or equal size before one of
\* smaller size.
C23_NodeAndChildrenBySize ==
    [][(ret' # ret /\ ret'.op = "get_file_node" /\ Known(ret'.key) # {}) =>
          /\ ret'.result = "Some"
          /\ ret'.node \in Known(ret'.key)
          /\ ret'.value = value[ret'.node]
          /\ Len(ret'.children) = Len(children[ret'.node])
          /\ \A c \in Range(children[ret'.node]) :
                 Cardinality({i \in 1..Len(ret'.children) : ret'.children[i] = value[c]}) = 1
          /\ \A i \in 1..(Len(ret'.children) - 1) :
                 ret'.children[i].size >= ret'.children[i + 1].size]_vars

\* C24: for every node n of the tree, at any depth, get_path(n) is the
\* absolute path made of the names of the nodes above n, from the root down,
\* and of n's own name, and get_node(get_path(n)) is n.
C24_GetPathRoundTrip ==
    \A n \in InTree :
        /\ get_path(n) = PathOf(n)
        /\ get_node(get_path(n)) = n

\* C25: the size of a node that is not a directory is, in every later state,
\* the size it was created with.
C25_FileSizeNeverChanges ==
    [][\A n \in Nodes \cap DOMAIN value' :
          ~value[n].is_directory => value'[n].size = value[n].size]_vars

\* The places where node n stands in a list of children.
Places(n) == {pl \in InTree \X (1..Cardinality(Nodes)) :
                 pl[2] <= Len(children[pl[1]]) /\ children[pl[1]][pl[2]] = n}

\* C26: the tree has one root, which has no parent; every other node stands
\* once in the children of one node, its parent; and the parents of a node,
\* followed upwards, are distinct nodes that end with the root.
C26_TreeShape ==
    /\ root \in Nodes
    /\ {n \in InTree : parent[n] = None} = {root}
    /\ Places(root) = {}
    /\ \A n \in InTree \ {root} :
           /\ Cardinality(Places(n)) = 1
           /\ \A pl \in Places(n) : parent[n] = pl[1]
           /\ LET up == RootIter(n)
              IN /\ up[Len(up)] = root
                 /\ \A i, j \in 1..Len(up) : up[i] = up[j] => i = j
                 /\ n \notin Range(up)

\* C26 witness: a tree three levels deep, on which a remove of a node below
\* the root has been called.
C26_Witness ==
    /\ ret.op = "remove"
    /\ ret.node # None
    /\ ret.node # root
    /\ Cardinality(InTree) >= 3
    /\ \E n \in InTree : Len(RootIter(n)) >= 2

\* C27: in every step of a scan, the size of each directory node after the
\* step is at least its size before it.
C27_DirectorySizeNeverDecreases ==
    [][\A n \in Nodes \cap DOMAIN value' :
          value[n].is_directory => value'[n].size >= value[n].size]_vars

\* C27 witness: in the middle of a scan by two workers, the root has grown
\* by the sizes of two entries and a worker is adding a third.
C27_Witness ==
    /\ concurrency = 2
    /\ progress.is_scanning
    /\ value[root].size >= 3
    /\ \E w \in Running : task[w].pc = "update_parent_size" /\ value[task[w].new_node].size > 0

\* C28: a symbolic link is recorded as one node and is not followed: no
\* item on the queue is an entry listed through a link, and the node of a
\* link has no children.
C28_SymlinkNotFollowed ==
    /\ \A i \in 1..Len(queue) : ~is_symlink(queue[i].parent)
    /\ \A n \in InTree : is_symlink(value[n].path) => children[n] = <<>>

\* C29: from start() on, is_scanning is true as long as a worker of the
\* scan has not exited or an item is on the queue.
C29_ScanningWhileWorkLeft ==
    (last = "start" /\ (queue # <<>> \/ \E w \in workers : task[w].pc # "done")) =>
        progress.is_scanning

\* C30: once every worker of a scan has exited by itself, the queue is
\* empty: no item that was enqueued is left unprocessed.
C30_QueueDrainedAtExit ==
    (last = "start" /\ AllExited) => queue = <<>>

\* C31: every started scan eventually reaches a state in which all its
\* workers have exited, the queue is empty and is_scanning is false.
C31_ScanEventuallyCompletes ==
    (last = "start") ~> (AllExited /\ queue = <<>> /\ ~progress.is_scanning)

\* The step in which worker w inserts the entry it popped: process_scan_item
\* up to update_parent_size.
InsertStep(w) ==
    /\ w \in DOMAIN task /\ w \in DOMAIN task'
    /\ task[w].pc = "process_scan_item"
    /\ task'[w].pc = "update_parent_size"

\* A turn of the size walk of worker w.
SizeStep(w) ==
    /\ w \in DOMAIN task /\ w \in DOMAIN task'
    /\ task[w].pc = "update_parent_size"
    /\ task'[w] # task[w]

\* C34: inserting one entry during a scan adds 1 to the count of each of its
\* ancestors and changes no other count; a directory is created with size 0;
\* each turn of the size walk adds the size of a file, and nothing for a
\* directory, to the one ancestor it is at and changes no other node.
C34_InsertEffect ==
    [][\A w \in WorkerIds :
          /\ InsertStep(w) =>
                LET p == task'[w].cursor
                    n == task'[w].new_node
                    anc == {p} \cup Range(RootIter(p))
                IN /\ \A a \in anc : count'[a] = count[a] + 1
                   /\ \A m \in Nodes \ anc : count'[m] = count[m]
                   /\ \A m \in Nodes : value'[m] = value[m]
                   /\ value'[n].is_directory => value'[n].size = 0
          /\ SizeStep(w) =>
                LET up == task[w].cursor
                    n == task[w].new_node
                    added == IF value[n].is_directory THEN 0 ELSE value[n].size
                IN /\ value'[up].size = value[up].size + added
                   /\ \A m \in Nodes \ {up} : value'[m] = value[m]
                   /\ count' = count]_vars

\* C35: the scanned size of the progress never goes backwards from one
\* published snapshot to the next, and once every worker has ended it equals
\* the size of the root node.
C35_ScannedSizeMonotonic ==
    [][/\ (last = "start" /\ last' = "start") =>
              progress'.scaned_size >= progress.scaned_size
       /\ AllExited' => progress'.scaned_size = value'[root'].size]_vars

\* C36: Tree.remove(path) on an existing node that is not the root returns
\* to its caller, which goes on running.
C36_RemoveReturns ==
    (ret.op = "remove" /\ ret.node # None /\ ret.node # root) =>
        (ret.result = "Ok" /\ caller = "running")

\* C37: no two children of the same node carry the same name.
C37_UniqueChildNames ==
    \A n \in InTree : \A i, j \in 1..Len(children[n]) :
        value[children[n][i]].path = value[children[n][j]].path => i = j

\* C38: Node.remove_child(key) on a node with a child of path key takes the
\* first such child out of its children, returns the nodes of that child's
\* subtree, child.count + 1 of them, and lowers the node's count by that
\* number; with no such child it returns nothing and changes no count and
\* no children.
C38_RemoveChild ==
    [][ret'.op = "remove_child" =>
          LET n == ret'.node
              kids == children[n]
              hits == {i \in 1..Len(kids) : value[kids[i]].path = ret'.key}
          IN IF hits = {}
             THEN ret'.elems = <<>> /\ count' = count /\ children' = children
             ELSE LET i == CHOOSE h \in hits : \A j \in hits : h <= j
                      c == kids[i]
                  IN /\ children'[n] = SubSeq(kids, 1, i - 1) \o SubSeq(kids, i + 1, Len(kids))
                     /\ Range(ret'.elems) = Subtree(c)
                     /\ Len(ret'.elems) = count[c] + 1
                     /\ count'[n] = count[n] - (count[c] + 1)]_vars

\* C32: a worker never holds the write locks of two nodes at once during the
\* count walk of insert_node and the size walk of update_parent_size: it has
\* dropped the guard of one ancestor before it asks for the next.
C32_OneAncestorLock ==
    \A w \in Running : Cardinality(task[w].wlocks) <= 1

\* A worker holds the write lock of the second ancestor of its walk, having
\* gone past the first.
C32_Witness ==
    \E w \in Running :
        /\ task[w].pc = "size_add"
        /\ task[w].cursor # parent[task[w].new_node]
        /\ task[w].wlocks = {task[w].cursor}

\* Some threads wait for one another: each of them cannot go on before
\* another of them has.
LockCycle ==
    \E S \in (SUBSET Threads) \ {{}} : \A t \in S : \E u \in S : WaitsFor(t, u)

\* C33: no state is reached in which threads wait for one another for the
\* tree mutex, the queue mutex, the progress mutex or a node lock.
C33_NoLockCycle == ~LockCycle

====
